---- MODULE Spec2Model ----
(***************************************************************************)
(* scripts/filter_wordlist.py: one run of the script after another on the  *)
(* words file data/words.txt.                                              *)
(*                                                                         *)
(* Text is a sequence of one-character strings.  Zipf scores and           *)
(* thresholds are integers counting hundredths (zipf_frequency rounds to   *)
(* two decimals), so 3.0 is 300 and 0.01 is 1.                             *)
(***************************************************************************)
EXTENDS Integers, Sequences, FiniteSets, TLC

VARIABLES
    file,       \* content of WORDS_FILE
    zipf,       \* the wordfreq table: normalised word -> Zipf score
    pc,         \* position of the current run in main()
    argv,       \* sys.argv[1:]
    words,      \* main: words
    threshold,  \* main: threshold
    filtered,   \* main: filtered
    buckets,    \* analyze: buckets
    stdout,     \* what the run has printed, in order
    exitCode,   \* exit status of the run; None while it runs
    fileRead,   \* whether the run has read WORDS_FILE
    before,     \* content of WORDS_FILE when the run started
    orig,       \* content of WORDS_FILE before the first run
    tmax        \* largest threshold of the filter runs that have written

vars == <<file, zipf, pc, argv, words, threshold, filtered, buckets, stdout,
          exitCode, fileRead, before, orig, tmax>>

-----------------------------------------------------------------------------
(* Bounds and input sets *)

MaxLen == 5

\* A variable that has no value yet holds None; one that has holds <<value>>.
None == <<>>

NL == "\n"
Chars == {"a", "B", " ", NL}

\* Code points: str comparison and list.sort() order text by them.
Ord(c) ==
    CASE c = NL  -> 10
      [] c = " " -> 32
      [] c = "B" -> 66
      [] c = "a" -> 97
      [] c = "b" -> 98
      [] OTHER   -> 0

Texts(n) == UNION {[1..k -> Chars] : k \in 0..n}

\* Scores zipf_frequency may return, 0 meaning not found: below, at and
\* above the thresholds of the filter runs.
Scores == {0, 250, 300, 400}

\* Scores for the runs of the analysis: the edges of every range it reports.
AnalysisScores == {0, 1, 99, 100, 200, 249, 250, 299, 300, 350, 400, 499, 500}

\* Command lines (without the script's name).
ArgStrings == {<<"3", ".", "0">>, <<"2", ".", "5">>, <<"4">>, <<"x">>}
Argvs ==
    {<<>>, <<"bogus">>, <<"analyze">>, <<"filter">>}
        \cup {<<"filter", s>> : s \in ArgStrings}

-----------------------------------------------------------------------------
(* str methods *)

IsSpace(c) == c \in {" ", NL}

lower(s) == [i \in DOMAIN s |-> IF s[i] = "B" THEN "b" ELSE s[i]]

RECURSIVE lstrip(_)
lstrip(s) ==
    IF s # <<>> /\ IsSpace(Head(s)) THEN lstrip(Tail(s)) ELSE s

RECURSIVE rstrip(_)
rstrip(s) ==
    IF s # <<>> /\ IsSpace(s[Len(s)])
    THEN rstrip(SubSeq(s, 1, Len(s) - 1))
    ELSE s

strip(s) == rstrip(lstrip(s))

\* str.splitlines(): a line ends at each line break; no empty last line.
RECURSIVE splitlines(_)
splitlines(s) ==
    IF s = <<>> THEN <<>>
    ELSE IF \E i \in 1..Len(s) : s[i] = NL
         THEN LET i == CHOOSE j \in 1..Len(s) :
                           s[j] = NL /\ \A k \in 1..(j - 1) : s[k] # NL
              IN  <<SubSeq(s, 1, i - 1)>> \o splitlines(SubSeq(s, i + 1, Len(s)))
         ELSE <<s>>

\* sep.join(list)
RECURSIVE join(_, _)
join(sep, list) ==
    IF list = <<>> THEN <<>>
    ELSE IF Len(list) = 1 THEN list[1]
    ELSE list[1] \o sep \o join(sep, Tail(list))

\* a < b on str
RECURSIVE StrLess(_, _)
StrLess(a, b) ==
    IF b = <<>> THEN FALSE
    ELSE IF a = <<>> THEN TRUE
    ELSE IF Head(a) = Head(b) THEN StrLess(Tail(a), Tail(b))
    ELSE Ord(Head(a)) < Ord(Head(b))

\* list.sort() on a list of str (stable insertion from the left)
RECURSIVE Insert(_, _)
Insert(w, sorted) ==
    IF sorted = <<>> THEN <<w>>
    ELSE IF StrLess(w, Head(sorted)) THEN <<w>> \o sorted
    ELSE <<Head(sorted)>> \o Insert(w, Tail(sorted))

RECURSIVE sort(_)
sort(list) ==
    IF list = <<>> THEN <<>>
    ELSE Insert(list[Len(list)], sort(SubSeq(list, 1, Len(list) - 1)))

Range(s) == {s[i] : i \in DOMAIN s}

-----------------------------------------------------------------------------
(* The script's functions *)

MIN_LENGTH == 2

DefaultThreshold == 300

\* A write_text that appends to the file instead of replacing its content.
write_text_append(old, data) == old \o data

\* Path.write_text(data): the file holds data and nothing else.
write_text(old, data) == data

\* zipf_frequency(w, "en"): a lookup in a fixed table.
zipf_frequency(w) == zipf[w]

load_words(text) ==
    LET lines    == splitlines(text)
        nonblank == SelectSeq(lines, LAMBDA line : strip(line) # <<>>)
    IN  [i \in DOMAIN nonblank |-> lower(strip(nonblank[i]))]

get_scores(ws) == [i \in DOMAIN ws |-> <<ws[i], zipf_frequency(ws[i])>>]

\* A filter_words whose score test is strict.
filter_words_strict(ws, t) ==
    LET kept == SelectSeq(get_scores(ws),
                          LAMBDA p : p[2] > t /\ Len(p[1]) >= MIN_LENGTH)
    IN  [i \in DOMAIN kept |-> kept[i][1]]

filter_words(ws, t) ==
    LET kept == SelectSeq(get_scores(ws),
                          LAMBDA p : p[2] >= t /\ Len(p[1]) >= MIN_LENGTH)
    IN  [i \in DOMAIN kept |-> kept[i][1]]

\* float(s) for an unsigned decimal literal with at most two decimals, in
\* hundredths; None (ValueError) for text that is no number.
Digits == {"0", "1", "2", "3", "4", "5", "6", "7", "8", "9"}

DigitVal(c) ==
    CASE c = "0" -> 0 [] c = "1" -> 1 [] c = "2" -> 2 [] c = "3" -> 3
      [] c = "4" -> 4 [] c = "5" -> 5 [] c = "6" -> 6 [] c = "7" -> 7
      [] c = "8" -> 8 [] c = "9" -> 9

RECURSIVE NatVal(_)
NatVal(ds) ==
    IF ds = <<>> THEN 0
    ELSE NatVal(SubSeq(ds, 1, Len(ds) - 1)) * 10 + DigitVal(ds[Len(ds)])

float(s) ==
    LET dots == {i \in DOMAIN s : s[i] = "."}
        dot  == IF dots = {} THEN Len(s) + 1 ELSE CHOOSE i \in dots : TRUE
        int  == SubSeq(s, 1, dot - 1)
        frac == SubSeq(s, dot + 1, Len(s))
    IN  IF /\ Cardinality(dots) <= 1
           /\ \A i \in DOMAIN s : s[i] \in Digits \cup {"."}
           /\ Len(int) + Len(frac) >= 1
           /\ Len(frac) <= 2
        THEN <<NatVal(int) * 100
                 + (IF Len(frac) = 1 THEN 10 ELSE 1) * NatVal(frac)>>
        ELSE None

\* analyze: the labels of the buckets, in the dict's order
Labels ==
    <<"0 (not found)", "0.01-1.0", "1.0-2.0", "2.0-2.5", "2.5-3.0",
      "3.0-3.5", "3.5-4.0", "4.0-5.0", "5.0+">>

\* A chain whose 2.5-3.0 range includes its upper bound.
BucketOf_InclusiveUpper(score) ==
    IF score = 0 THEN "0 (not found)"
    ELSE IF score < 100 THEN "0.01-1.0"
    ELSE IF score < 200 THEN "1.0-2.0"
    ELSE IF score < 250 THEN "2.0-2.5"
    ELSE IF score <= 300 THEN "2.5-3.0"
    ELSE IF score < 350 THEN "3.0-3.5"
    ELSE IF score < 400 THEN "3.5-4.0"
    ELSE IF score < 500 THEN "4.0-5.0"
    ELSE "5.0+"

\* analyze: the if/elif chain that picks a word's bucket
BucketOf(score) ==
    IF score = 0 THEN "0 (not found)"
    ELSE IF score < 100 THEN "0.01-1.0"
    ELSE IF score < 200 THEN "1.0-2.0"
    ELSE IF score < 250 THEN "2.0-2.5"
    ELSE IF score < 300 THEN "2.5-3.0"
    ELSE IF score < 350 THEN "3.0-3.5"
    ELSE IF score < 400 THEN "3.5-4.0"
    ELSE IF score < 500 THEN "4.0-5.0"
    ELSE "5.0+"

EmptyBuckets == [l \in Range(Labels) |-> <<>>]

\* analyze: the loop that appends each scored word to its bucket
RECURSIVE FillBuckets(_, _)
FillBuckets(scores, b) ==
    IF scores = <<>> THEN b
    ELSE LET l == BucketOf(Head(scores)[2])
         IN  FillBuckets(Tail(scores),
                         [b EXCEPT ![l] = Append(@, Head(scores)[1])])

\* analyze: the thresholds of the cumulative table
AnalyzeThresholds == <<1, 100, 200, 250, 300, 350, 400>>

\* A count that leaves out the length test.
KeptAt_NoMinLength(scores, t) ==
    Cardinality({i \in DOMAIN scores : scores[i][2] >= t})

\* analyze: sum(1 for _, s in scores if s >= threshold and len(_) >= MIN_LENGTH)
KeptAt(scores, t) ==
    Cardinality({i \in DOMAIN scores :
                    scores[i][2] >= t /\ Len(scores[i][1]) >= MIN_LENGTH})

Prefix(s, n) == SubSeq(s, 1, IF Len(s) < n THEN Len(s) ELSE n)

\* analyze: one row of the bucket report
BucketRow(b, l) == <<"bucket", l, Len(b[l]), Prefix(sort(b[l]), 8)>>

\* analyze: one row of the cumulative table
KeptRow(scores, t) == <<"kept", t, KeptAt(scores, t)>>

\* A test that accepts any command.
UsageError_LengthOnly(args) == Len(args) < 1

\* main: the test that ends the run with the usage text
UsageError(args) == Len(args) < 1 \/ args[1] \notin {"analyze", "filter"}

\* A main whose analyze branch falls through to the filter branch.
AfterAnalyze_FallsThrough == "filter"

\* main: where the run continues once analyze(words) has returned
AfterAnalyze == "exited"

\* A threshold read one argument too far (sys.argv[3]), so never found.
ThresholdOf_OffByOne(args) ==
    IF Len(args) > 2 THEN float(args[3]) ELSE <<DefaultThreshold>>

\* main: threshold = float(sys.argv[2]) if len(sys.argv) > 2 else 3.0
ThresholdOf(args) ==
    IF Len(args) > 1 THEN float(args[2]) ELSE <<DefaultThreshold>>

-----------------------------------------------------------------------------
(* The runs *)

Max(a, b) == IF a >= b THEN a ELSE b

\* Before the first run: any words file, and any table over its words.
InitWith(scores) ==
    /\ file \in Texts(MaxLen)
    /\ zipf \in [Range(load_words(file)) -> scores]
    /\ pc = "idle"
    /\ argv = <<>>
    /\ words = <<>>
    /\ threshold = None
    /\ filtered = <<>>
    /\ buckets = EmptyBuckets
    /\ stdout = <<>>
    /\ exitCode = None
    /\ fileRead = FALSE
    /\ before = file
    /\ orig = file
    /\ tmax = None

Init == InitWith(Scores)

InitAnalysis == InitWith(AnalysisScores)

\* The script is started with command line a.
Invoke(a) ==
    /\ pc \in {"idle", "exited"}
    /\ pc' = "main"
    /\ argv' = a
    /\ words' = <<>>
    /\ threshold' = None
    /\ filtered' = <<>>
    /\ buckets' = EmptyBuckets
    /\ stdout' = <<>>
    /\ exitCode' = None
    /\ fileRead' = FALSE
    /\ before' = file
    /\ UNCHANGED <<file, zipf, orig, tmax>>

\* main: the check of the command
CheckArgs ==
    /\ pc = "main"
    /\ IF UsageError(argv)
       THEN /\ stdout' = Append(stdout, <<"usage">>)
            /\ exitCode' = <<1>>
            /\ pc' = "exited"
       ELSE /\ pc' = "load"
            /\ UNCHANGED <<stdout, exitCode>>
    /\ UNCHANGED <<file, zipf, argv, words, threshold, filtered, buckets,
                   fileRead, before, orig, tmax>>

\* main: words = load_words(); command = sys.argv[1]
LoadWords ==
    /\ pc = "load"
    /\ words' = load_words(file)
    /\ fileRead' = TRUE
    /\ pc' = argv[1]
    /\ UNCHANGED <<file, zipf, argv, threshold, filtered, buckets, stdout,
                   exitCode, before, orig, tmax>>

\* main: analyze(words).  With no word, pct = count / total * 100 raises
\* ZeroDivisionError at the first row of the bucket report.
Analyze ==
    /\ pc = "analyze"
    /\ LET scores == get_scores(words)
           total  == Len(scores)
           b      == FillBuckets(scores, EmptyBuckets)
           top    == <<<<"total", total>>, <<"bucket header">>>>
       IN  /\ buckets' = b
           /\ IF total = 0
              THEN /\ stdout' = stdout \o top
                   /\ exitCode' = <<1>>
                   /\ pc' = "exited"
              ELSE /\ stdout' =
                        stdout \o top
                          \o [i \in DOMAIN Labels |-> BucketRow(b, Labels[i])]
                          \o <<<<"kept header">>>>
                          \o [i \in DOMAIN AnalyzeThresholds |->
                                  KeptRow(scores, AnalyzeThresholds[i])]
                   /\ pc' = AfterAnalyze
                   /\ exitCode' = IF AfterAnalyze = "exited" THEN <<0>> ELSE None
    /\ UNCHANGED <<file, zipf, argv, words, threshold, filtered, fileRead,
                   before, orig, tmax>>

\* main: the filter branch up to the prints; float() may raise ValueError
Filter ==
    /\ pc = "filter"
    /\ LET t == ThresholdOf(argv)
       IN  IF t = None
           THEN /\ exitCode' = <<1>>
                /\ pc' = "exited"
                /\ UNCHANGED <<threshold, filtered, stdout>>
           ELSE LET out == sort(filter_words(words, t[1]))
                IN  /\ threshold' = t
                    /\ filtered' = out
                    /\ stdout' = stdout \o <<<<"filtering", t[1], MIN_LENGTH>>,
                                             <<"input", Len(words)>>,
                                             <<"output", Len(out)>>>>
                    /\ pc' = "write"
                    /\ UNCHANGED exitCode
    /\ UNCHANGED <<file, zipf, argv, words, buckets, fileRead, before, orig,
                   tmax>>

\* main: WORDS_FILE.write_text("\n".join(filtered) + "\n") and the last print
WriteFile ==
    /\ pc = "write"
    /\ file' = write_text(file, join(<<NL>>, filtered) \o <<NL>>)
    /\ stdout' = Append(stdout, <<"written">>)
    /\ exitCode' = <<0>>
    /\ pc' = "exited"
    /\ tmax' = IF tmax = None THEN threshold
               ELSE <<Max(tmax[1], threshold[1])>>
    /\ UNCHANGED <<zipf, argv, words, threshold, filtered, buckets, fileRead,
                   before, orig>>

Next ==
    \/ \E a \in Argvs : Invoke(a)
    \/ CheckArgs
    \/ LoadWords
    \/ Analyze
    \/ Filter
    \/ WriteFile

Spec == Init /\ [][Next]_vars

\* Runs of the analyze command only, over the finer table.
NextAnalysis ==
    \/ Invoke(<<"analyze">>)
    \/ CheckArgs
    \/ LoadWords
    \/ Analyze

SpecAnalysis == InitAnalysis /\ [][NextAnalysis]_vars

-----------------------------------------------------------------------------
(* Vocabulary of the properties *)

Count(w, list) == Cardinality({i \in DOMAIN list : list[i] = w})

RECURSIVE SumLen(_, _)
SumLen(b, labels) ==
    IF labels = <<>> THEN 0 ELSE Len(b[Head(labels)]) + SumLen(b, Tail(labels))

RECURSIVE SumCount(_, _, _)
SumCount(w, b, labels) ==
    IF labels = <<>> THEN 0
    ELSE Count(w, b[Head(labels)]) + SumCount(w, b, Tail(labels))

\* The run is one of the given command and has ended with the given status.
Ended(command, status) ==
    /\ pc = "exited"
    /\ argv # <<>>
    /\ argv[1] = command
    /\ exitCode = <<status>>

\* The content a filter run at threshold t leaves in a words file that held text.
FilterResult(text, t) ==
    join(<<NL>>, sort(filter_words(load_words(text), t))) \o <<NL>>

\* The "Output" count a filter run at threshold t prints for a words file
\* that holds text.
FilterOutputCount(text, t) == Len(sort(filter_words(load_words(text), t)))

\* The range each label of the analysis names: lo <= score < hi.
LabelLo ==
    [l \in Range(Labels) |->
        CASE l = "0 (not found)" -> 0   [] l = "0.01-1.0" -> 1
          [] l = "1.0-2.0"       -> 100 [] l = "2.0-2.5"  -> 200
          [] l = "2.5-3.0"       -> 250 [] l = "3.0-3.5"  -> 300
          [] l = "3.5-4.0"       -> 350 [] l = "4.0-5.0"  -> 400
          [] l = "5.0+"          -> 500]

LabelHi ==
    [l \in Range(Labels) |->
        CASE l = "0 (not found)" -> 1   [] l = "0.01-1.0" -> 100
          [] l = "1.0-2.0"       -> 200 [] l = "2.0-2.5"  -> 250
          [] l = "2.5-3.0"       -> 300 [] l = "3.0-3.5"  -> 350
          [] l = "3.5-4.0"       -> 400 [] l = "4.0-5.0"  -> 500
          [] l = "5.0+"          -> 100000]

\* The thresholds of the analysis as THRESHOLD arguments of the filter command.
ThresholdArgs ==
    <<<<"0", ".", "0", "1">>, <<"1", ".", "0">>, <<"2", ".", "0">>,
      <<"2", ".", "5">>, <<"3", ".", "0">>, <<"3", ".", "5">>,
      <<"4", ".", "0">>>>

\* The rows of the cumulative table the run has printed, in order.
KeptRows == SelectSeq(stdout, LAMBDA row : row[1] = "kept")

\* The rows of the bucket report the run has printed, in order.
BucketRows == SelectSeq(stdout, LAMBDA row : row[1] = "bucket")

-----------------------------------------------------------------------------
(* Properties *)

\* C1: what a filter run writes is exactly the normalised input words whose
\* score is >= the threshold and whose length is >= 2: a word that passes
\* both tests occurs as often as in the normalised input, any other word
\* does not occur, and no word is added.
C1_FilterKeepsExactly ==
    Ended("filter", 0) =>
        LET input    == load_words(before)
            produced == load_words(file)
        IN  /\ produced = filtered
            /\ Range(produced) \subseteq Range(input)
            /\ \A w \in Range(input) :
                   Count(w, produced) =
                       IF zipf[w] >= threshold[1] /\ Len(w) >= 2
                       THEN Count(w, input)
                       ELSE 0

\* C1 witness: a filter run that rewrote the file and kept a word twice.
C1_Witness ==
    /\ Ended("filter", 0)
    /\ file # before
    /\ \E w \in Range(load_words(file)) : Count(w, load_words(file)) = 2

\* C2: a filter run with no THRESHOLD argument uses 3.0 and leaves the file
\* that a run with the argument 3.0 leaves; a run with a THRESHOLD argument
\* uses the value of the argument.
C2_DefaultThreshold ==
    (pc \in {"write", "exited"} /\ argv # <<>> /\ argv[1] = "filter"
        /\ threshold # None) =>
        IF Len(argv) = 1
        THEN /\ threshold = float(<<"3", ".", "0">>)
             /\ threshold = <<300>>
             /\ pc = "exited" => file = FilterResult(before, 300)
        ELSE /\ threshold = float(argv[2])
             /\ pc = "exited" => file = FilterResult(before, float(argv[2])[1])

\* C2 witness: a filter run without argument on a file where a threshold of
\* 2.5 would have kept more and one just above 3.0 less.
C2_Witness ==
    /\ Ended("filter", 0)
    /\ Len(argv) = 1
    /\ load_words(file) # <<>>
    /\ file # FilterResult(before, 250)
    /\ file # FilterResult(before, 301)

\* C3: a run with no command, or with a first argument other than analyze
\* and filter, never reads or changes the words file, and when it has ended
\* it has printed the usage text and nothing else and its status is 1.
C3_UsageError ==
    (pc \notin {"idle"} /\ (argv = <<>> \/ argv[1] \notin {"analyze", "filter"})) =>
        /\ ~fileRead
        /\ file = before
        /\ pc \in {"main", "exited"}
        /\ pc = "exited" => (stdout = <<<<"usage">>>> /\ exitCode = <<1>>)

\* C3 witness: a run with an unknown command has ended, on a file with words.
C3_Witness ==
    /\ pc = "exited"
    /\ argv = <<"bogus">>
    /\ exitCode = <<1>>
    /\ load_words(file) # <<>>

\* C4: the words file changes only at the write step of a filter run, and
\* throughout an analyze run it holds what it held when the run started.
C4_OnlyFilterWrites ==
    [][/\ file' # file => (pc = "write" /\ argv[1] = "filter")
       /\ (argv' # <<>> /\ argv'[1] = "analyze") => file' = before']_vars

\* C4 witness: an analyze run has ended on a file a filter run would change.
C4_Witness ==
    /\ Ended("analyze", 0)
    /\ file = before
    /\ FilterResult(file, 300) # file

\* C5: after the bucketing every loaded word is in exactly one bucket, as
\* often as it was loaded; the bucket counts sum to the printed total; each
\* word's score lies in the range its bucket's label names, lower bound
\* included and upper bound excluded; the printed counts are the buckets'.
C5_BucketsPartition ==
    (pc = "exited" /\ argv # <<>> /\ argv[1] = "analyze") =>
        /\ \A w \in Range(words) : SumCount(w, buckets, Labels) = Count(w, words)
        /\ \A l \in Range(Labels) :
               \A w \in Range(buckets[l]) :
                   /\ w \in Range(words)
                   /\ LabelLo[l] <= zipf[w]
                   /\ zipf[w] < LabelHi[l]
        /\ stdout[1] = <<"total", SumLen(buckets, Labels)>>
        /\ exitCode = <<0>> =>
               /\ Len(BucketRows) = Len(Labels)
               /\ \A i \in DOMAIN Labels :
                      /\ BucketRows[i][2] = Labels[i]
                      /\ BucketRows[i][3] = Len(buckets[Labels[i]])

\* C5 witness: two words that score exactly 3.0 are in the bucket 3.0-3.5
\* and a word that was not found is in its own.
C5_Witness ==
    /\ Ended("analyze", 0)
    /\ Len(buckets["3.0-3.5"]) = 2
    /\ \A w \in Range(buckets["3.0-3.5"]) : zipf[w] = 300
    /\ buckets["0 (not found)"] # <<>>

\* C6: for each threshold of the analysis the "Words Kept" count it prints
\* is the "Output" count of a filter run with that threshold as argument on
\* the same file, and the counts do not increase down the table.
C6_KeptMatchesFilter ==
    Ended("analyze", 0) =>
        /\ Len(KeptRows) = Len(AnalyzeThresholds)
        /\ \A i \in DOMAIN AnalyzeThresholds :
               /\ KeptRows[i][2] = AnalyzeThresholds[i]
               /\ float(ThresholdArgs[i]) = <<AnalyzeThresholds[i]>>
               /\ KeptRows[i][3] =
                      FilterOutputCount(file, float(ThresholdArgs[i])[1])
        /\ \A i, j \in DOMAIN AnalyzeThresholds :
               i < j => KeptRows[i][3] >= KeptRows[j][3]

\* C6 witness: an analysis whose table keeps a word at 3.0, fewer at 4.0,
\* and not every loaded word at 0.01.
C6_Witness ==
    /\ Ended("analyze", 0)
    /\ KeptRows[5][3] >= 1
    /\ KeptRows[7][3] < KeptRows[5][3]
    /\ KeptRows[1][3] < Len(words)

\* C7: once filter runs have written, the file holds what one filter run at
\* the largest of their thresholds leaves on the original file (so a repeat
\* at the same threshold changes nothing), and a filter run never leaves
\* more words than it found.
C7_FilterComposes ==
    /\ tmax # None => file = FilterResult(orig, tmax[1])
    /\ Ended("filter", 0) =>
           Len(load_words(file)) <= Len(load_words(before))

\* C7 witness: a filter run changed a file that an earlier filter run had
\* already changed, and words are left.
C7_Witness ==
    /\ Ended("filter", 0)
    /\ before # orig
    /\ file # before
    /\ load_words(file) # <<>>

====
